---- MODULE Spec2Model ----
(***************************************************************************)
(* A model of the Vulkan frame renderer of aerugo-comp                     *)
(* (framework/src/vulkan/renderer/mod.rs): VulkanRenderer::new, the        *)
(* Renderer::render frame, the staging command buffer, and Drop.           *)
(*                                                                         *)
(* The CPU thread is one process whose position is pc.  The GPU is a       *)
(* second process: it retires submitted work asynchronously (GpuComplete)  *)
(* and may do so between any two steps of the CPU that touch the device.   *)
(* `calls` is the list of device calls the running (or last) top-level     *)
(* operation issued, in order, with each call's success.                   *)
(***************************************************************************)
EXTENDS Integers, Sequences, FiniteSets, TLC

VARIABLES
    pc,                      \* position of the CPU thread
    command_pool,            \* VulkanRenderer.command_pool
    command_buffer,          \* state of VulkanRenderer.command_buffer
    staging_command_buffer,  \* state of VulkanRenderer.staging_command_buffer
    recording_staging,       \* VulkanRenderer.recording_staging
    allocator,               \* VulkanRenderer.allocator
    staging_buffers,         \* VulkanRenderer.staging_buffers
    submit_fence,            \* state of VulkanRenderer.submit_fence
    renderpasses,            \* VulkanRenderer.renderpasses (format -> handle)
    target,                  \* VulkanRenderer.target
    pending,                 \* queue submissions the GPU has not completed
    calls,                   \* device calls of the current operation
    renders,                 \* number of render() calls made so far
    cbOps,                   \* operations made by the running callback
    stagingReqs,             \* recording_staging_buffer() calls of the frame
    built,                   \* new() returned Ok(renderer)
    result,                  \* what the last new()/render() returned
    tracker_log,             \* allocate/free calls made on the tracker, with results
    rp_objects,              \* render pass objects created so far (format of each)
    cache_log,               \* lookups and creations made on the render pass cache
    cb_value,                \* the value the callback returned this frame
    ret,                     \* the value in the Ok(..) render() returned
    enabled_extensions,      \* extensions enabled on the Device given to new()
    version_cmp,             \* two Versions and the result of comparing them
    builder,                 \* an InstanceBuilder, the runtime it met and what build() returned
    wm                       \* the wm client: a toplevel's pending state, events handled, pongs sent

vars == <<pc, command_pool, command_buffer, staging_command_buffer,
          recording_staging, allocator, staging_buffers, submit_fence,
          renderpasses, target, pending, calls, renders, cbOps,
          stagingReqs, built, result,
          tracker_log,
          rp_objects,
          cache_log,
          cb_value,
          ret,
          enabled_extensions,
          version_cmp,
          builder,
          wm>>

(* ----------------------------- bounds --------------------------------- *)

\* render() calls in one behaviour
MaxRenders == 3
\* operations one callback makes
MaxCallbackOps == 2
\* largest maxMemoryAllocationCount a device reports
MaxDeviceAllocs == 2
\* allocate/free calls made directly on the tracker
MaxTrackerOps == 7

\* render pass cache operations along one behaviour
MaxCacheOps == 3

\* largest value of a Version field that is compared
MaxVersionField == 2

\* layers, and extensions, requested from one InstanceBuilder
MaxRequested == 2

\* events the wm client handles along one behaviour
MaxWmEvents == 3

(* ----------------------------- helpers -------------------------------- *)

Call(c, a, ok) == [call |-> c, arg |-> a, ok |-> ok]

RequiredDeviceExtensions ==
    {"VK_EXT_image_drm_format_modifier", "VK_KHR_image_format_list"}

\* the extensions new() asks the Device about; a Device has any of them
DeviceExtensions == RequiredDeviceExtensions

\* the check with `any` in the place of `all`
RequiredExtensionsEnabled_Any ==
    RequiredDeviceExtensions \cap enabled_extensions # {}

\* required_device_extensions().iter().all(|e| device.is_extension_enabled(e))
RequiredExtensionsEnabled == RequiredDeviceExtensions \subseteq enabled_extensions

\* a fence created without FenceCreateFlags::SIGNALED
FenceCreateState_Unsignaled == "unsignaled"

\* the state vkCreateFence leaves the fence in (FenceCreateFlags::SIGNALED)
FenceCreateState == "signaled"

\* the command buffers render() names in its vk::SubmitInfo
SubmitCommandBuffers == {"primary"}

\* the command buffers Drop hands to vkFreeCommandBuffers
DropFreedCommandBuffers == <<"primary">>

\* the pixel formats render passes are asked for
Formats == {"B8G8R8A8_SRGB", "B8G8R8A8_UNORM"}

\* values a rendering callback may return (the type parameter R)
CallbackValues == {"v1", "v2"}

\* HashMap::new()
NoRenderpasses == [f \in {} |-> 0]

\* HashMap::insert(format, handle): a new entry, or the entry replaced
Inserted(map, format, handle) ==
    [f \in DOMAIN map \cup {format} |-> IF f = format THEN handle ELSE map[f]]

(* ------------------------- Version (version.rs) ----------------------- *)

\* struct Version; the fields are u32 and are only compared, never computed
Version(variant, major, minor, patch) ==
    [variant |-> variant, major |-> major, minor |-> minor, patch |-> patch]

\* from_raw(ash::vk::API_VERSION_1_0), .._1_1, .._1_2
VERSION_1_0 == Version(0, 1, 0, 0)
VERSION_1_1 == Version(0, 1, 1, 0)
VERSION_1_2 == Version(0, 1, 2, 0)

\* the versions compared
Versions ==
    [variant : 0..MaxVersionField, major : 0..MaxVersionField,
     minor : 0..MaxVersionField, patch : 0..MaxVersionField]

\* u32::partial_cmp, which is always Some(..)
u32_partial_cmp(x, y) ==
    IF x < y THEN "Less" ELSE IF x = y THEN "Equal" ELSE "Greater"

\* the comparison with the minor field left out
partial_cmp_SkipsMinor(self, other) ==
    IF u32_partial_cmp(self.variant, other.variant) # "Equal"
    THEN u32_partial_cmp(self.variant, other.variant)
    ELSE IF u32_partial_cmp(self.major, other.major) # "Equal"
    THEN u32_partial_cmp(self.major, other.major)
    ELSE u32_partial_cmp(self.patch, other.patch)

\* <Version as PartialOrd>::partial_cmp: variant, major, minor, then patch
partial_cmp(self, other) ==
    IF u32_partial_cmp(self.variant, other.variant) # "Equal"
    THEN u32_partial_cmp(self.variant, other.variant)
    ELSE IF u32_partial_cmp(self.major, other.major) # "Equal"
    THEN u32_partial_cmp(self.major, other.major)
    ELSE IF u32_partial_cmp(self.minor, other.minor) # "Equal"
    THEN u32_partial_cmp(self.minor, other.minor)
    ELSE u32_partial_cmp(self.patch, other.patch)

(* ------------------ InstanceBuilder (instance/mod.rs) ----------------- *)

\* names of instance layers and of instance extensions
LayerNames == {"L1", "L2"}
ExtensionNames == {"E1", "E2"}

\* Instance::builder(): nothing requested; no runtime enumerated, nothing
\* returned, no instance created
InstanceBuilderNew ==
    [enable_layers |-> <<>>, enable_extensions |-> <<>>,
     supported_layers |-> {}, supported_extensions |-> {},
     enumerated |-> FALSE, outcome |-> "none", missing |-> <<>>,
     instance |-> FALSE]

\* no requested name reported missing
Missing_Nothing(requested, supported) == <<>>

\* requested.iter().filter(|s| !supported.contains(s)).cloned().collect()
Missing(requested, supported) ==
    SelectSeq(requested, LAMBDA s : s \notin supported)

\* the checks of build() with the extensions looked at first
BuildCheck_ExtensionsFirst(missing_layers, missing_extensions) ==
    IF missing_extensions # <<>>
    THEN [outcome |-> "MissingExtensions", missing |-> missing_extensions]
    ELSE IF missing_layers # <<>>
    THEN [outcome |-> "MissingLayers", missing |-> missing_layers]
    ELSE [outcome |-> "supported", missing |-> <<>>]

\* the two early returns of build(): the layers, then the extensions
BuildCheck(missing_layers, missing_extensions) ==
    IF missing_layers # <<>>
    THEN [outcome |-> "MissingLayers", missing |-> missing_layers]
    ELSE IF missing_extensions # <<>>
    THEN [outcome |-> "MissingExtensions", missing |-> missing_extensions]
    ELSE [outcome |-> "supported", missing |-> <<>>]

(* ------------------------ wm client (aerugo_wm.rs) -------------------- *)

\* widths, heights and positions carried by toplevel events
Dimensions == {0, 1}

\* serials carried by pings
Serials == {1, 2}

\* Option::None; Some((a, b)) is <<a, b>>
None == <<>>

\* the wm client before any event: nothing pending on the toplevel, no
\* request sent
WmNew ==
    [min_size |-> None, max_size |-> None, geometry |-> None,
     events |-> <<>>, pongs |-> <<>>]

WmEvent(event, a, b) == [event |-> event, a |-> a, b |-> b]

\* the size an event with (width, height) stands for: (0, 0) resets it
SizeOf(width, height) ==
    IF width = 0 /\ height = 0 THEN None ELSE <<width, height>>

(* -------------------- AllocationIdTracker (alloc.rs) ------------------- *)

live_count == Cardinality(allocator.live)

TrackerNew(max) == [max_allocations |-> max, live |-> {}]

\* the limit check passing with live_count equal to the limit
CanAllocate_OffByOne == live_count <= allocator.max_allocations

CanAllocate == live_count < allocator.max_allocations

\* an id that is not outstanding (ids are opaque tokens)
NewAllocationId == CHOOSE id \in 1..(live_count + 1) : id \notin allocator.live

TrackerAllocate(id) == [allocator EXCEPT !.live = @ \cup {id}]

\* a free that leaves the id outstanding
TrackerFree_Noop(ids) == allocator

TrackerFree(ids) == [allocator EXCEPT !.live = @ \ ids]

(* ------------------------------ Init ---------------------------------- *)

Init ==
    /\ pc = "unbuilt"
    /\ command_pool = "null"
    /\ command_buffer = "null"
    /\ staging_command_buffer = "null"
    /\ recording_staging = FALSE
    /\ allocator = TrackerNew(0)
    /\ staging_buffers = <<>>
    /\ submit_fence = "null"
    /\ renderpasses = NoRenderpasses
    /\ target = "none"
    /\ pending = <<>>
    /\ calls = <<>>
    /\ renders = 0
    /\ cbOps = 0
    /\ stagingReqs = 0
    /\ built = FALSE
    /\ result = "none"
    /\ tracker_log = <<>>
    /\ rp_objects = <<>>
    /\ cache_log = <<>>
    /\ cb_value = "none"
    /\ ret = "none"
    /\ enabled_extensions \in SUBSET DeviceExtensions
    /\ version_cmp = [a |-> VERSION_1_0, b |-> VERSION_1_0, ord |-> "none"]
    /\ builder = InstanceBuilderNew
    /\ wm = WmNew

(* ------------------------ VulkanRenderer::new -------------------------- *)

\* the fallible steps of new() after the null-handle renderer is built, in
\* order; "none" stands for no failure
NewSteps ==
    <<"create_command_pool", "allocate_command_buffers", "create_fence",
      "init_shm_formats", "create_renderpass", "none">>

StepIndex(step) == CHOOSE i \in DOMAIN NewSteps : NewSteps[i] = step

\* step `step` ran and succeeded when new() fails at `fail`
Done(step, fail) == StepIndex(step) < StepIndex(fail)

\* the device calls new() issues when it fails at `fail`
NewCalls(fail) ==
    LET mk(i) == Call(NewSteps[i], "device", i < StepIndex(fail))
    IN  [i \in 1..(IF fail = "none" THEN Len(NewSteps) - 1 ELSE StepIndex(fail))
            |-> mk(i)]

New ==
    /\ pc = "unbuilt"
    /\ \E max \in 1..MaxDeviceAllocs, f \in DOMAIN NewSteps :
        LET fail == NewSteps[f] IN
        IF ~RequiredExtensionsEnabled
        THEN /\ pc' = "failed"
             /\ result' = "MissingRequiredExtensions"
             /\ UNCHANGED <<command_pool, command_buffer, staging_command_buffer,
                            recording_staging, allocator, staging_buffers,
                            submit_fence, renderpasses, target, pending, calls,
                            renders, cbOps, stagingReqs, built,
                            tracker_log, rp_objects, cache_log,
                            cb_value,
                            ret,
                            enabled_extensions,
                            version_cmp,
                            builder,
                            wm>>
        ELSE /\ allocator' = TrackerNew(max)
             /\ command_pool' =
                    IF Done("create_command_pool", fail) THEN "live" ELSE "null"
             /\ command_buffer' =
                    IF Done("allocate_command_buffers", fail) THEN "initial" ELSE "null"
             /\ staging_command_buffer' =
                    IF Done("allocate_command_buffers", fail) THEN "initial" ELSE "null"
             /\ submit_fence' =
                    IF Done("create_fence", fail) THEN FenceCreateState ELSE "null"
             /\ renderpasses' =
                    IF Done("create_renderpass", fail)
                    THEN Inserted(renderpasses, "B8G8R8A8_SRGB", Len(rp_objects) + 1)
                    ELSE renderpasses
             /\ rp_objects' =
                    IF Done("create_renderpass", fail)
                    THEN Append(rp_objects, "B8G8R8A8_SRGB")
                    ELSE rp_objects
             /\ calls' = NewCalls(fail)
             /\ built' = (fail = "none")
             /\ result' = IF fail = "none" THEN "Ok" ELSE "Err"
             \* on an error the partially built renderer is dropped
             /\ pc' = IF fail = "none" THEN "idle" ELSE "drop"
             /\ UNCHANGED <<recording_staging, staging_buffers, target, pending,
                            renders, cbOps, stagingReqs, tracker_log,
                            cache_log, cb_value, ret, enabled_extensions,
                            version_cmp, builder, wm>>

(* --------------------------- Bind / Unbind ----------------------------- *)

Bind ==
    /\ pc = "idle"
    /\ target' = "fb"
    /\ UNCHANGED <<pc, command_pool, command_buffer, staging_command_buffer,
                   recording_staging, allocator, staging_buffers, submit_fence,
                   renderpasses, pending, calls, renders, cbOps, stagingReqs, built, result,
                   tracker_log, rp_objects, cache_log, cb_value, ret,
                   enabled_extensions, version_cmp, builder, wm>>

Unbind ==
    /\ pc = "idle"
    /\ target # "none"
    /\ target' = "none"
    /\ UNCHANGED <<pc, command_pool, command_buffer, staging_command_buffer,
                   recording_staging, allocator, staging_buffers, submit_fence,
                   renderpasses, pending, calls, renders, cbOps, stagingReqs, built, result,
                   tracker_log, rp_objects, cache_log, cb_value, ret,
                   enabled_extensions, version_cmp, builder, wm>>

(* ------------------------- Renderer::render ---------------------------- *)

\* `self.target.ok_or(Error::NoTarget)?` when no target is bound
NoTargetReturn ==
    /\ result' = "NoTarget"
    /\ calls' = <<>>
    /\ UNCHANGED <<pc, command_buffer>>

\* the begin of the primary command buffer, the begin of the render pass and
\* the invocation of the callback.  vkBeginCommandBuffer resets the buffer
\* implicitly (the pool was created with RESET_COMMAND_BUFFER); on a buffer
\* that is recording or pending the call is invalid and the driver may
\* accept or reject it, as it may reject any call.
BeginFrame(before) ==
    \E ok \in BOOLEAN :
        IF ok
        THEN /\ command_buffer' = "recording"
             /\ calls' = before \o
                         <<Call("begin_command_buffer", "primary", TRUE),
                           Call("cmd_begin_render_pass", "primary", TRUE),
                           Call("callback", "frame", TRUE)>>
             /\ result' = "running"
             /\ pc' = "callback"
        ELSE /\ calls' = before \o
                         <<Call("begin_command_buffer", "primary", FALSE)>>
             /\ result' = "VkError"
             /\ UNCHANGED <<pc, command_buffer>>

\* RenderEnter without the target check: the frame is begun whatever
\* self.target holds
RenderEnter_NoTargetCheck ==
    /\ pc = "idle"
    /\ renders' = renders + 1
    /\ cbOps' = 0
    /\ stagingReqs' = 0
    /\ cb_value' = "none"
    /\ ret' = "none"
    /\ BeginFrame(<<>>)
    /\ UNCHANGED <<command_pool, staging_command_buffer, recording_staging,
                   allocator, staging_buffers, submit_fence, renderpasses,
                   target, pending, built, tracker_log, rp_objects,
                   cache_log, enabled_extensions, version_cmp, builder, wm>>

\* RenderEnter with a wait on the completion fence before the primary
\* command buffer is begun
RenderEnter_WaitsForFence ==
    /\ pc = "idle"
    /\ renders' = renders + 1
    /\ cbOps' = 0
    /\ stagingReqs' = 0
    /\ cb_value' = "none"
    /\ ret' = "none"
    /\ IF target = "none"
       THEN NoTargetReturn
       ELSE /\ submit_fence = "signaled"
            /\ BeginFrame(<<Call("wait_for_fences", "submit_fence", TRUE)>>)
    /\ UNCHANGED <<command_pool, staging_command_buffer, recording_staging,
                   allocator, staging_buffers, submit_fence, renderpasses,
                   target, pending, built, tracker_log, rp_objects,
                   cache_log, enabled_extensions, version_cmp, builder, wm>>

\* render() up to the invocation of the callback: the target check, then
\* the begin of the frame
RenderEnter ==
    /\ pc = "idle"
    /\ renders' = renders + 1
    /\ cbOps' = 0
    /\ stagingReqs' = 0
    /\ cb_value' = "none"
    /\ ret' = "none"
    /\ IF target = "none" THEN NoTargetReturn ELSE BeginFrame(<<>>)
    /\ UNCHANGED <<command_pool, staging_command_buffer, recording_staging,
                   allocator, staging_buffers, submit_fence, renderpasses,
                   target, pending, built, tracker_log, rp_objects,
                   cache_log, enabled_extensions, version_cmp, builder, wm>>

\* recording_staging_buffer(): begins the staging command buffer unless the
\* flag says it is recording.  The flag is not written here.
RecordingStagingBuffer(ok) ==
    /\ IF ~recording_staging
       THEN /\ calls' = Append(calls, Call("begin_command_buffer", "staging", ok))
            /\ staging_command_buffer' =
                  IF ok THEN "recording" ELSE staging_command_buffer
       ELSE UNCHANGED <<calls, staging_command_buffer>>
    /\ UNCHANGED recording_staging

\* whether recording_staging_buffer() returns Ok when its begin returns ok
StagingRequestOk(ok) == recording_staging \/ ok

\* the callback asks for the staging command buffer
CallbackRequestStaging ==
    /\ pc = "callback"
    /\ cbOps < MaxCallbackOps
    /\ cbOps' = cbOps + 1
    /\ stagingReqs' = stagingReqs + 1
    /\ \E ok \in BOOLEAN : RecordingStagingBuffer(ok)
    /\ UNCHANGED <<pc, command_pool, command_buffer, allocator, staging_buffers,
                   submit_fence, renderpasses, target, pending, renders, built,
                   result, tracker_log, rp_objects, cache_log, cb_value, ret,
                   enabled_extensions, version_cmp, builder, wm>>

\* the callback stages an upload: an AllocationId from the tracker, the
\* staging command buffer (opened on first use), the buffer appended to the
\* in-flight list
CallbackStage ==
    /\ pc = "callback"
    /\ cbOps < MaxCallbackOps
    /\ cbOps' = cbOps + 1
    /\ IF ~CanAllocate
       THEN UNCHANGED <<calls, staging_command_buffer, recording_staging,
                        allocator, staging_buffers, stagingReqs>>
       ELSE \E ok \in BOOLEAN :
            /\ stagingReqs' = stagingReqs + 1
            /\ RecordingStagingBuffer(ok)
            /\ IF StagingRequestOk(ok)
               THEN /\ allocator' = TrackerAllocate(NewAllocationId)
                    /\ staging_buffers' =
                          Append(staging_buffers,
                                 [memory_allocation_id |-> NewAllocationId])
               ELSE UNCHANGED <<allocator, staging_buffers>>
    /\ UNCHANGED <<pc, command_pool, command_buffer, submit_fence, renderpasses,
                   target, pending, renders, built, result, tracker_log,
                   rp_objects, cache_log, cb_value, ret, enabled_extensions,
                   version_cmp, builder, wm>>

\* render() ending the staging command buffer in every frame
EndsStaging_Always == TRUE

\* `if self.recording_staging`: whether render() ends the staging command
\* buffer
EndsStaging == recording_staging

\* the callback returns: end of the render pass, end of the staging command
\* buffer when the flag is set, end of the primary command buffer
RenderFinishRecording ==
    /\ pc = "callback"
    /\ cb_value' \in CallbackValues
    /\ \E okS \in BOOLEAN, okP \in BOOLEAN :
        LET c1 == Append(calls, Call("cmd_end_render_pass", "primary", TRUE))
            c2 == IF EndsStaging
                  THEN Append(c1, Call("end_command_buffer", "staging", okS))
                  ELSE c1
            stagingFailed == EndsStaging /\ ~okS
            c3 == IF stagingFailed THEN c2
                  ELSE Append(c2, Call("end_command_buffer", "primary", okP))
            failed == stagingFailed \/ ~okP
        IN  /\ (~EndsStaging => okS)
            /\ (stagingFailed => okP)
            /\ calls' = c3
            /\ recording_staging' = FALSE
            /\ staging_command_buffer' =
                  IF EndsStaging
                  THEN (IF okS THEN "executable" ELSE "invalid")
                  ELSE staging_command_buffer
            /\ command_buffer' =
                  IF stagingFailed THEN command_buffer
                  ELSE IF okP THEN "executable" ELSE "invalid"
            /\ pc' = IF failed THEN "idle" ELSE "reset"
            /\ result' = IF failed THEN "VkError" ELSE result
    /\ UNCHANGED <<command_pool, allocator, staging_buffers, submit_fence,
                   renderpasses, target, pending, renders, cbOps, stagingReqs, built,
                   tracker_log, rp_objects, cache_log, ret,
                   enabled_extensions, version_cmp, builder, wm>>

\* vkResetFences (VUID-vkQueueSubmit-fence-00063)
RenderResetFence ==
    /\ pc = "reset"
    /\ \E ok \in BOOLEAN :
        /\ calls' = Append(calls, Call("reset_fences", "submit_fence", ok))
        /\ submit_fence' = IF ok THEN "unsignaled" ELSE submit_fence
        /\ pc' = IF ok THEN "submit" ELSE "idle"
        /\ result' = IF ok THEN result ELSE "VkError"
    /\ UNCHANGED <<command_pool, command_buffer, staging_command_buffer,
                   recording_staging, allocator, staging_buffers, renderpasses,
                   target, pending, renders, cbOps, stagingReqs, built,
                   tracker_log, rp_objects, cache_log, cb_value, ret,
                   enabled_extensions, version_cmp, builder, wm>>

\* the staging buffers that exist, by the id of their memory; a frame
\* submitted now may read any of them
StagedIds ==
    {staging_buffers[i].memory_allocation_id : i \in DOMAIN staging_buffers}

\* the command buffers whose recording was begun by the running frame
RecordedThisFrame ==
    {calls[i].arg :
        i \in {j \in DOMAIN calls :
                  calls[j].call = "begin_command_buffer" /\ calls[j].ok}}

\* render() answering Ok whatever vkQueueSubmit returned
SubmitResult_Ignored(ok) == "Ok"

\* render() answering an error whatever vkQueueSubmit returned
SubmitResult_AlwaysError(ok) == "VkError"

\* what render() returns after vkQueueSubmit: the error through `?`, else Ok
SubmitResult(ok) == IF ok THEN "Ok" ELSE "VkError"

\* vkQueueSubmit of the primary command buffer with the fence, then
\* Ok(result) with the value the callback returned
RenderSubmit ==
    /\ pc = "submit"
    /\ \E ok \in BOOLEAN :
        /\ calls' = Append(calls, Call("queue_submit", "submit_fence", ok))
        /\ pending' =
              IF ok
              THEN Append(pending, [frame |-> renders,
                                    command_buffers |-> SubmitCommandBuffers,
                                    recorded |-> RecordedThisFrame,
                                    staging |-> StagedIds,
                                    fence |-> submit_fence])
              ELSE pending
        /\ result' = SubmitResult(ok)
        /\ ret' = IF SubmitResult(ok) = "Ok" THEN cb_value ELSE "none"
    /\ pc' = "idle"
    /\ UNCHANGED <<command_pool, command_buffer, staging_command_buffer,
                   recording_staging, allocator, staging_buffers, submit_fence,
                   renderpasses, target, renders, cbOps, stagingReqs, built,
                   tracker_log, rp_objects, cache_log, cb_value,
                   enabled_extensions, version_cmp, builder, wm>>

(* ------------------------------- GPU ----------------------------------- *)

\* The queue retires its oldest submission and signals the fence given with
\* it.  All submissions share the one fence; a submission made while an
\* older one is pending uses the fence invalidly, and the signal of the
\* older one may or may not be observed.  The last one always signals.
GpuComplete ==
    /\ pending # <<>>
    /\ pending' = Tail(pending)
    /\ \E signal \in BOOLEAN :
        /\ (Len(pending) = 1 => signal)
        /\ submit_fence' =
              IF signal /\ submit_fence \in {"signaled", "unsignaled"}
              THEN "signaled" ELSE submit_fence
    /\ UNCHANGED <<pc, command_pool, command_buffer, staging_command_buffer,
                   recording_staging, allocator, staging_buffers, renderpasses,
                   target, calls, renders, cbOps, stagingReqs, built, result,
                   tracker_log, rp_objects, cache_log, cb_value, ret,
                   enabled_extensions, version_cmp, builder, wm>>

(* --------------------------- Drop ------------------------------------- *)

\* where the CPU goes after a call that was handed a null handle it must not
\* be handed: the driver may ignore it or fault
AfterNullUse(isNull, next) == IF isNull THEN {next, "crashed"} ELSE {next}

\* first statements of drop(): vkFreeCommandBuffers, vkDestroyCommandPool.
\* Destroying the pool frees every command buffer allocated from it.
DropFreeCommandBuffers ==
    /\ pc \in {"idle", "drop"}
    /\ calls' =
          [i \in 1..Len(DropFreedCommandBuffers) |->
              Call("free_command_buffers", DropFreedCommandBuffers[i], TRUE)]
          \o <<Call("destroy_command_pool", "command_pool", TRUE)>>
    /\ command_buffer' = IF command_buffer = "null" THEN "null" ELSE "freed"
    /\ staging_command_buffer' =
          IF staging_command_buffer = "null" THEN "null" ELSE "freed"
    /\ command_pool' = IF command_pool = "null" THEN "null" ELSE "destroyed"
    /\ pc' \in AfterNullUse(command_pool = "null", "drop_wait")
    /\ UNCHANGED <<recording_staging, allocator, staging_buffers, submit_fence,
                   renderpasses, target, pending, renders, cbOps, stagingReqs, built, result,
                   tracker_log, rp_objects, cache_log, cb_value, ret,
                   enabled_extensions, version_cmp, builder, wm>>

\* drop() going on to vkDestroyFence without the wait
DropWaitFence_Skipped ==
    /\ pc = "drop_wait"
    /\ pc' = "drop_fence"
    /\ UNCHANGED <<command_pool, command_buffer, staging_command_buffer,
                   recording_staging, allocator, staging_buffers, submit_fence,
                   renderpasses, target, pending, calls, renders, cbOps,
                   stagingReqs, built, result, tracker_log, rp_objects,
                   cache_log, cb_value, ret, enabled_extensions, version_cmp,
                   builder, wm>>

\* vkWaitForFences(submit_fence, u64::MAX): returns once the fence is
\* signaled (the device is taken not to be lost while tearing down)
DropWaitFence ==
    /\ pc = "drop_wait"
    /\ submit_fence \in {"signaled", "null"}
    /\ calls' = Append(calls, Call("wait_for_fences", "submit_fence",
                                   submit_fence = "signaled"))
    /\ pc' \in AfterNullUse(submit_fence = "null", "drop_fence")
    /\ UNCHANGED <<command_pool, command_buffer, staging_command_buffer,
                   recording_staging, allocator, staging_buffers, submit_fence,
                   renderpasses, target, pending, renders, cbOps, stagingReqs, built, result,
                   tracker_log, rp_objects, cache_log, cb_value, ret,
                   enabled_extensions, version_cmp, builder, wm>>

\* some enumeration of a set of formats
RECURSIVE SeqOf(_)
SeqOf(S) == IF S = {} THEN <<>>
            ELSE LET x == CHOOSE y \in S : TRUE IN <<x>> \o SeqOf(S \ {x})

\* vkDestroyFence, unbind(), the drain of the render pass cache
DropDestroyFence ==
    /\ pc = "drop_fence"
    /\ calls' =
          Append(calls, Call("destroy_fence", "submit_fence", TRUE))
          \o [i \in 1..Cardinality(DOMAIN renderpasses) |->
                 Call("destroy_render_pass", SeqOf(DOMAIN renderpasses)[i], TRUE)]
    /\ submit_fence' = IF submit_fence = "null" THEN "null" ELSE "destroyed"
    /\ target' = "none"
    /\ renderpasses' = NoRenderpasses
    /\ pc' = "drop_staging"
    /\ UNCHANGED <<command_pool, command_buffer, staging_command_buffer,
                   recording_staging, allocator, staging_buffers, pending,
                   renders, cbOps, stagingReqs, built, result, tracker_log,
                   rp_objects, cache_log, cb_value, ret, enabled_extensions,
                   version_cmp, builder, wm>>

\* free_staging_buffers() destroying nothing
FreeStagingBuffers_Nothing ==
    /\ calls' = calls
    /\ staging_buffers' = staging_buffers
    /\ allocator' = allocator

\* free_staging_buffers(): drains the list, destroying each buffer and
\* freeing its memory; the tracker is not told
FreeStagingBuffers ==
    /\ calls' =
          calls \o
          [i \in 1..(2 * Len(staging_buffers)) |->
              Call(IF i % 2 = 1 THEN "destroy_buffer" ELSE "free_memory",
                   "staging_buffer", TRUE)]
    /\ staging_buffers' = <<>>
    /\ allocator' = allocator

DropFreeStaging ==
    /\ pc = "drop_staging"
    /\ FreeStagingBuffers
    /\ pc' = "dropped"
    /\ UNCHANGED <<command_pool, command_buffer, staging_command_buffer,
                   recording_staging, submit_fence, renderpasses, target,
                   pending, renders, cbOps, stagingReqs, built, result,
                   tracker_log, rp_objects, cache_log, cb_value, ret,
                   enabled_extensions, version_cmp, builder, wm>>

(* ------------- AllocationIdTracker: allocate and free ------------------ *)

TrackerEntry(op, status, id) == [op |-> op, status |-> status, id |-> id]

\* allocate(): an AllocationId, or the limit error with nothing changed
Allocate ==
    /\ pc = "idle"
    /\ Len(tracker_log) < MaxTrackerOps
    /\ IF CanAllocate
       THEN /\ allocator' = TrackerAllocate(NewAllocationId)
            /\ tracker_log' =
                  Append(tracker_log, TrackerEntry("allocate", "Ok", NewAllocationId))
       ELSE /\ allocator' = allocator
            /\ tracker_log' =
                  Append(tracker_log, TrackerEntry("allocate", "TooManyAllocations", 0))
    /\ UNCHANGED <<pc, command_pool, command_buffer, staging_command_buffer,
                   recording_staging, staging_buffers, submit_fence,
                   renderpasses, target, pending, calls, renders, cbOps,
                   stagingReqs, built, result, rp_objects, cache_log,
                   cb_value, ret, enabled_extensions, version_cmp, builder,
                   wm>>

\* free(id) of an outstanding id
Free ==
    /\ pc = "idle"
    /\ Len(tracker_log) < MaxTrackerOps
    /\ \E id \in allocator.live :
        /\ allocator' = TrackerFree({id})
        /\ tracker_log' = Append(tracker_log, TrackerEntry("free", "Ok", id))
    /\ UNCHANGED <<pc, command_pool, command_buffer, staging_command_buffer,
                   recording_staging, staging_buffers, submit_fence,
                   renderpasses, target, pending, calls, renders, cbOps,
                   stagingReqs, built, result, rp_objects, cache_log,
                   cb_value, ret, enabled_extensions, version_cmp, builder,
                   wm>>

(* ------------------------ render pass cache --------------------------- *)

CacheEntry(op, format, found, handle) ==
    [op |-> op, format |-> format, found |-> found, handle |-> handle]

\* get_or_create_renderpasses(format): self.renderpasses.get(&format).copied();
\* a format that is not in the map gives None, and nothing is created
GetOrCreateRenderpasses ==
    /\ pc = "idle"
    /\ Len(cache_log) < MaxCacheOps
    /\ \E format \in Formats :
        cache_log' = Append(cache_log,
            IF format \in DOMAIN renderpasses
            THEN CacheEntry("get_or_create", format, TRUE, renderpasses[format])
            ELSE CacheEntry("get_or_create", format, FALSE, 0))
    /\ UNCHANGED <<pc, command_pool, command_buffer, staging_command_buffer,
                   recording_staging, allocator, staging_buffers, submit_fence,
                   renderpasses, target, pending, calls, renders, cbOps,
                   stagingReqs, built, result, tracker_log, rp_objects,
                   cb_value, ret, enabled_extensions, version_cmp, builder,
                   wm>>

\* create_renderpass(format): device.create_render_pass, then
\* self.renderpasses.insert(format, renderpass); the map is not consulted first
CreateRenderpass ==
    /\ pc = "idle"
    /\ Len(cache_log) < MaxCacheOps
    /\ \E format \in Formats, ok \in BOOLEAN :
        IF ok
        THEN /\ rp_objects' = Append(rp_objects, format)
             /\ renderpasses' = Inserted(renderpasses, format, Len(rp_objects) + 1)
             /\ cache_log' = Append(cache_log,
                    CacheEntry("create", format, TRUE, Len(rp_objects) + 1))
        ELSE /\ rp_objects' = rp_objects
             /\ renderpasses' = renderpasses
             /\ cache_log' = Append(cache_log,
                    CacheEntry("create", format, FALSE, 0))
    /\ UNCHANGED <<pc, command_pool, command_buffer, staging_command_buffer,
                   recording_staging, allocator, staging_buffers, submit_fence,
                   target, pending, calls, renders, cbOps, stagingReqs, built,
                   result, tracker_log, cb_value, ret, enabled_extensions,
                   version_cmp, builder, wm>>

(* ------------------------- Version comparison ------------------------- *)

\* a comparison a.partial_cmp(&b) of two versions, once in a behaviour
CompareVersions ==
    /\ version_cmp.ord = "none"
    /\ \E a \in Versions, b \in Versions :
          version_cmp' = [a |-> a, b |-> b, ord |-> partial_cmp(a, b)]
    /\ UNCHANGED <<pc, command_pool, command_buffer, staging_command_buffer,
                   recording_staging, allocator, staging_buffers, submit_fence,
                   renderpasses, target, pending, calls, renders, cbOps,
                   stagingReqs, built, result, tracker_log, rp_objects,
                   cache_log, cb_value, ret, enabled_extensions, builder, wm>>

(* --------------------------- InstanceBuilder -------------------------- *)

\* InstanceBuilder::layer
layer ==
    /\ builder.outcome = "none"
    /\ Len(builder.enable_layers) < MaxRequested
    /\ \E l \in LayerNames :
          builder' = [builder EXCEPT !.enable_layers = Append(@, l)]
    /\ UNCHANGED <<pc, command_pool, command_buffer, staging_command_buffer,
                   recording_staging, allocator, staging_buffers, submit_fence,
                   renderpasses, target, pending, calls, renders, cbOps,
                   stagingReqs, built, result, tracker_log, rp_objects,
                   cache_log, cb_value, ret, enabled_extensions, version_cmp,
                   wm>>

\* InstanceBuilder::extension
extension ==
    /\ builder.outcome = "none"
    /\ Len(builder.enable_extensions) < MaxRequested
    /\ \E e \in ExtensionNames :
          builder' = [builder EXCEPT !.enable_extensions = Append(@, e)]
    /\ UNCHANGED <<pc, command_pool, command_buffer, staging_command_buffer,
                   recording_staging, allocator, staging_buffers, submit_fence,
                   renderpasses, target, pending, calls, renders, cbOps,
                   stagingReqs, built, result, tracker_log, rp_objects,
                   cache_log, cb_value, ret, enabled_extensions, version_cmp,
                   wm>>

\* InstanceBuilder::build: the two enumerations, the two checks, then
\* vkCreateInstance; each of the three runtime calls may fail
build ==
    /\ builder.outcome = "none"
    /\ \E supported_layers \in SUBSET LayerNames,
          supported_extensions \in SUBSET ExtensionNames,
          fail \in {"none", "enumerate_layers", "enumerate_extensions",
                    "create_instance"} :
        LET check ==
                BuildCheck(
                    Missing(builder.enable_layers, supported_layers),
                    Missing(builder.enable_extensions, supported_extensions))
            met == [builder EXCEPT !.supported_layers = supported_layers,
                                   !.supported_extensions = supported_extensions,
                                   !.enumerated = TRUE]
        IN  builder' =
                IF fail \in {"enumerate_layers", "enumerate_extensions"}
                THEN [builder EXCEPT !.outcome = "VkError"]
                ELSE IF check.outcome # "supported"
                THEN [met EXCEPT !.outcome = check.outcome,
                                 !.missing = check.missing]
                ELSE IF fail = "create_instance"
                THEN [met EXCEPT !.outcome = "VkError"]
                ELSE [met EXCEPT !.outcome = "Instance", !.instance = TRUE]
    /\ UNCHANGED <<pc, command_pool, command_buffer, staging_command_buffer,
                   recording_staging, allocator, staging_buffers, submit_fence,
                   renderpasses, target, pending, calls, renders, cbOps,
                   stagingReqs, built, result, tracker_log, rp_objects,
                   cache_log, cb_value, ret, enabled_extensions, version_cmp,
                   wm>>

(* ------------------------------ wm client ----------------------------- *)

\* a Ping handled without an answer
Ping_NoPong ==
    /\ Len(wm.events) < MaxWmEvents
    /\ \E serial \in Serials :
          wm' = [wm EXCEPT !.events = Append(@, WmEvent("Ping", serial, 0))]
    /\ UNCHANGED <<pc, command_pool, command_buffer, staging_command_buffer,
                   recording_staging, allocator, staging_buffers, submit_fence,
                   renderpasses, target, pending, calls, renders, cbOps,
                   stagingReqs, built, result, tracker_log, rp_objects,
                   cache_log, cb_value, ret, enabled_extensions, version_cmp,
                   builder>>

\* aerugo_wm_v1 Event::Ping { serial }: wm.pong(serial)
Ping ==
    /\ Len(wm.events) < MaxWmEvents
    /\ \E serial \in Serials :
          wm' = [wm EXCEPT !.events = Append(@, WmEvent("Ping", serial, 0)),
                           !.pongs = Append(@, serial)]
    /\ UNCHANGED <<pc, command_pool, command_buffer, staging_command_buffer,
                   recording_staging, allocator, staging_buffers, submit_fence,
                   renderpasses, target, pending, calls, renders, cbOps,
                   stagingReqs, built, result, tracker_log, rp_objects,
                   cache_log, cb_value, ret, enabled_extensions, version_cmp,
                   builder>>

\* aerugo_wm_toplevel_v1 Event::MinSize { width, height }
MinSize ==
    /\ Len(wm.events) < MaxWmEvents
    /\ \E width \in Dimensions, height \in Dimensions :
          wm' = [wm EXCEPT
                    !.events = Append(@, WmEvent("MinSize", width, height)),
                    !.min_size = SizeOf(width, height)]
    /\ UNCHANGED <<pc, command_pool, command_buffer, staging_command_buffer,
                   recording_staging, allocator, staging_buffers, submit_fence,
                   renderpasses, target, pending, calls, renders, cbOps,
                   stagingReqs, built, result, tracker_log, rp_objects,
                   cache_log, cb_value, ret, enabled_extensions, version_cmp,
                   builder>>

\* aerugo_wm_toplevel_v1 Event::MaxSize { width, height }: the handler
\* writes pending().min_size
MaxSize ==
    /\ Len(wm.events) < MaxWmEvents
    /\ \E width \in Dimensions, height \in Dimensions :
          wm' = [wm EXCEPT
                    !.events = Append(@, WmEvent("MaxSize", width, height)),
                    !.min_size = SizeOf(width, height)]
    /\ UNCHANGED <<pc, command_pool, command_buffer, staging_command_buffer,
                   recording_staging, allocator, staging_buffers, submit_fence,
                   renderpasses, target, pending, calls, renders, cbOps,
                   stagingReqs, built, result, tracker_log, rp_objects,
                   cache_log, cb_value, ret, enabled_extensions, version_cmp,
                   builder>>

\* aerugo_wm_toplevel_v1 Event::Geometry { x, y, width, length }
Geometry ==
    /\ Len(wm.events) < MaxWmEvents
    /\ \E x \in Dimensions, width \in Dimensions :
          wm' = [wm EXCEPT
                    !.events = Append(@, WmEvent("Geometry", x, width)),
                    !.geometry = <<x, x, width, width>>]
    /\ UNCHANGED <<pc, command_pool, command_buffer, staging_command_buffer,
                   recording_staging, allocator, staging_buffers, submit_fence,
                   renderpasses, target, pending, calls, renders, cbOps,
                   stagingReqs, built, result, tracker_log, rp_objects,
                   cache_log, cb_value, ret, enabled_extensions, version_cmp,
                   builder>>

(* ------------------------------ Spec ---------------------------------- *)

Render == renders < MaxRenders /\ RenderEnter

Next ==
    \/ New
    \/ Bind
    \/ Unbind
    \/ Render
    \/ CallbackRequestStaging
    \/ CallbackStage
    \/ RenderFinishRecording
    \/ RenderResetFence
    \/ RenderSubmit
    \/ GpuComplete
    \/ DropFreeCommandBuffers
    \/ DropWaitFence
    \/ DropDestroyFence
    \/ DropFreeStaging

Spec == Init /\ [][Next]_vars

\* the allocation tracker of a constructed renderer, driven directly
NextTracker ==
    \/ New
    \/ Allocate
    \/ Free

SpecTracker == Init /\ [][NextTracker]_vars

\* the render pass cache of a constructed renderer, driven directly, and
\* the teardown that empties it
NextCache ==
    \/ New
    \/ GetOrCreateRenderpasses
    \/ CreateRenderpass
    \/ DropFreeCommandBuffers
    \/ DropWaitFence
    \/ DropDestroyFence
    \/ DropFreeStaging

SpecCache == Init /\ [][NextCache]_vars

\* comparisons of versions
NextVersion == CompareVersions

SpecVersion == Init /\ [][NextVersion]_vars

\* an InstanceBuilder filled and built
NextBuilder ==
    \/ layer
    \/ extension
    \/ build

SpecBuilder == Init /\ [][NextBuilder]_vars

\* the events the wm client handles
NextWm ==
    \/ Ping
    \/ MinSize
    \/ MaxSize
    \/ Geometry

SpecWm == Init /\ [][NextWm]_vars

TypeOK ==
    /\ pc \in {"unbuilt", "failed", "idle", "callback", "reset", "submit",
               "drop", "drop_wait", "drop_fence", "drop_staging", "dropped",
               "crashed"}
    /\ command_pool \in {"null", "live", "destroyed"}
    /\ command_buffer \in {"null", "initial", "recording", "executable",
                           "invalid", "freed"}
    /\ staging_command_buffer \in {"null", "initial", "recording",
                                   "executable", "invalid", "freed"}
    /\ recording_staging \in BOOLEAN
    /\ submit_fence \in {"null", "signaled", "unsignaled", "destroyed"}
    /\ target \in {"none", "fb"}
    /\ renders \in 0..MaxRenders
    /\ cbOps \in 0..MaxCallbackOps
    /\ stagingReqs \in 0..cbOps
    /\ built \in BOOLEAN
    /\ Len(pending) <= renders
    /\ Len(staging_buffers) <= live_count
    /\ DOMAIN renderpasses \subseteq Formats
    /\ enabled_extensions \subseteq DeviceExtensions
    /\ version_cmp.ord \in {"none", "Less", "Equal", "Greater"}
    /\ builder.outcome \in {"none", "Instance", "MissingLayers",
                            "MissingExtensions", "VkError"}
    /\ Len(builder.enable_layers) <= MaxRequested
    /\ Len(builder.enable_extensions) <= MaxRequested
    /\ Len(wm.events) <= MaxWmEvents
    /\ Len(wm.pongs) <= Len(wm.events)
    /\ cb_value \in CallbackValues \cup {"none"}
    /\ ret \in CallbackValues \cup {"none"}
    /\ \A f \in DOMAIN renderpasses : renderpasses[f] \in 1..Len(rp_objects)
    /\ \A i \in DOMAIN rp_objects : rp_objects[i] \in Formats

(* ============================ the claims ============================== *)

\* positions of the CPU inside render(), recording or about to submit
RecordingPcs == {"callback", "reset", "submit"}

\* positions of the CPU inside drop() after its first statements
DropPcs == {"drop_wait", "drop_fence", "drop_staging", "dropped", "crashed"}

IsCall(c, name, arg) == c.call = name /\ c.arg = arg

\* C1: while the CPU records a frame, at most one earlier frame's submitted
\* work is in flight (submitted and not completed); never more than one.
C1_AtMostOneFrameInFlight ==
    pc \in RecordingPcs => Len(pending) <= 1

\* C2: in drop(), the wait on the completion fence is issued before the
\* command buffers are freed and before the command pool is destroyed.
C2_WaitBeforeFree ==
    \A i \in DOMAIN calls :
        calls[i].call \in {"free_command_buffers", "destroy_command_pool"}
        => \E j \in 1..(i - 1) : calls[j].call = "wait_for_fences"

\* C3: every command buffer whose recording was begun during a frame is
\* among the command buffers of that frame's queue submission.
C3_RecordedIsSubmitted ==
    \A i \in DOMAIN pending :
        pending[i].recorded \subseteq pending[i].command_buffers

\* the frame that just returned Ok, whose device calls are in `calls`
FrameSucceeded == pc = "idle" /\ renders > 0 /\ result = "Ok"

StagingBegins ==
    {i \in DOMAIN calls : IsCall(calls[i], "begin_command_buffer", "staging")}

StagingEnds ==
    {i \in DOMAIN calls : IsCall(calls[i], "end_command_buffer", "staging")}

\* C4: in a frame whose callback requested the staging command buffer one or
\* more times (every device call succeeding), the staging command buffer was
\* begun exactly once and ended exactly once, the end after the end of the
\* render pass and before the queue submission.
C4_StagingBegunAndEndedOnce ==
    (FrameSucceeded /\ stagingReqs >= 1 /\ \A i \in StagingBegins : calls[i].ok)
    => /\ Cardinality(StagingBegins) = 1
       /\ Cardinality(StagingEnds) = 1
       /\ \A e \in StagingEnds :
            /\ \E r \in 1..(e - 1) : calls[r].call = "cmd_end_render_pass"
            /\ \E q \in (e + 1)..Len(calls) : calls[q].call = "queue_submit"

\* C5: reclaiming the staging buffers frees one AllocationId per staged
\* buffer and empties the in-flight list, so live_count returns to its value
\* before staging.
C5_ReclaimFreesIds ==
    [][(pc = "drop_staging" /\ pc' = "dropped")
        => /\ live_count' = live_count - Len(staging_buffers)
           /\ staging_buffers' = <<>>]_vars

\* C6: render() with no target bound returns NoTarget, issues no device
\* call, does not invoke the callback and leaves the renderer unchanged.
C6_NoTargetNoDeviceCall ==
    [][(pc = "idle" /\ target = "none" /\ renders' = renders + 1)
        => /\ result' = "NoTarget"
           /\ calls' = <<>>
           /\ pc' = "idle"
           /\ UNCHANGED <<command_pool, command_buffer, staging_command_buffer,
                          recording_staging, allocator, staging_buffers,
                          submit_fence, renderpasses, target, pending>>]_vars

C6_Witness ==
    /\ pc = "idle" /\ target = "none" /\ result = "NoTarget"
    /\ renders >= 2 /\ pending # <<>>

\* the device calls of the frame that render() itself made
RECURSIVE OwnCalls(_)
OwnCalls(s) ==
    IF s = <<>> THEN <<>>
    ELSE IF IsCall(Head(s), "begin_command_buffer", "staging")
         THEN OwnCalls(Tail(s))
         ELSE <<Head(s).call>> \o OwnCalls(Tail(s))

StagingOpened == \E i \in StagingBegins : calls[i].ok

PosOf(name) == CHOOSE i \in DOMAIN calls : calls[i].call = name

\* C7: a successful render() issues, in this order: begin of the primary
\* command buffer, begin of the render pass, the callback (once), end of the
\* render pass, end of the staging command buffer if it was opened, end of
\* the primary command buffer, reset of the fence, queue submission; what the
\* callback does lies between the begin and the end of the render pass; every
\* begin is matched by one end.
C7_FrameOrder ==
    FrameSucceeded =>
        /\ OwnCalls(calls) =
              <<"begin_command_buffer", "cmd_begin_render_pass", "callback",
                "cmd_end_render_pass">>
              \o (IF StagingOpened THEN <<"end_command_buffer">> ELSE <<>>)
              \o <<"end_command_buffer", "reset_fences", "queue_submit">>
        /\ \A i \in StagingBegins :
              PosOf("callback") < i /\ i < PosOf("cmd_end_render_pass")
        /\ StagingOpened => Cardinality(StagingEnds) = 1
        /\ ~StagingOpened => StagingEnds = {}

\* C8: every queue_submit of render() is directly preceded by a successful
\* reset of the fence in the same call, and the fence is unsignaled at the
\* moment it is handed to the submission.
C8_FenceResetBeforeSubmit ==
    /\ \A i \in DOMAIN calls :
          calls[i].call = "queue_submit"
          => i > 1 /\ calls[i - 1] = Call("reset_fences", "submit_fence", TRUE)
    /\ \A i \in DOMAIN pending : pending[i].fence = "unsignaled"

C10_DropWithoutRenderDoesNotBlock ==
    (built /\ renders = 0) =>
        /\ pc = "drop_wait" =>
              submit_fence = "signaled" /\ ENABLED DropWaitFence
        /\ pc = "drop_fence" => ENABLED DropDestroyFence
        /\ pc = "drop_staging" => ENABLED DropFreeStaging
        /\ pc # "crashed"

C10_Witness ==
    /\ built /\ renders = 0 /\ pc = "dropped"
    /\ \E i \in DOMAIN calls : calls[i] = Call("wait_for_fences", "submit_fence", TRUE)


\* C11: after any sequence of render() calls, successful or failed, the
\* teardown fence wait returns: whenever render() is not running and the
\* fence is unsignaled, a submission that will signal it is pending.
C11_UnsignaledFenceHasPendingSubmission ==
    (built /\ pc \in {"idle", "drop_wait"} /\ submit_fence = "unsignaled")
    => pending # <<>>


\* C12: for every sequence of allocate and free operations the number of
\* outstanding AllocationIds never exceeds max_allocations.
C12_LiveCountWithinLimit ==
    live_count <= allocator.max_allocations

\* the limit is reached and a further request was refused
C12_Witness ==
    /\ built
    /\ live_count = allocator.max_allocations
    /\ \E i \in DOMAIN tracker_log : tracker_log[i].status = "TooManyAllocations"

LastTrackerOp == tracker_log'[Len(tracker_log')]

\* C13: an allocate made when live_count equals max_allocations returns the
\* limit error, issues no id and leaves live_count unchanged; a free releases
\* its id, and an allocate made below the limit (as after a free) succeeds
\* with an id that was not outstanding.
C13_AllocateAtLimitFails ==
    [][(Len(tracker_log') = Len(tracker_log) + 1)
        => /\ (LastTrackerOp.op = "allocate"
               /\ live_count = allocator.max_allocations)
              => /\ LastTrackerOp.status = "TooManyAllocations"
                 /\ LastTrackerOp.id = 0
                 /\ allocator' = allocator
           /\ (LastTrackerOp.op = "allocate"
               /\ live_count < allocator.max_allocations)
              => /\ LastTrackerOp.status = "Ok"
                 /\ LastTrackerOp.id \notin allocator.live
                 /\ allocator'.live = allocator.live \cup {LastTrackerOp.id}
           /\ LastTrackerOp.op = "free"
              => /\ LastTrackerOp.id \in allocator.live
                 /\ allocator'.live = allocator.live \ {LastTrackerOp.id}]_vars

\* a request refused at the limit, then a free, then a request that succeeds
C13_Witness ==
    \E i, j, k \in DOMAIN tracker_log :
        /\ i < j /\ j < k
        /\ tracker_log[i].status = "TooManyAllocations"
        /\ tracker_log[j].op = "free"
        /\ tracker_log[k].op = "allocate" /\ tracker_log[k].status = "Ok"


\* C14: the render pass cache is identity-stable. Through construction and
\* any sequence of get_or_create and create calls (every step before
\* teardown), at most one render pass object exists per pixel format, two
\* formats never map to one object, an entry once made keeps its object and
\* is not removed, and a lookup that runs returns the entry's object.
C14_CacheIdentityStable ==
    [][pc' \notin DropPcs =>
          /\ \A i, j \in DOMAIN rp_objects' :
                rp_objects'[i] = rp_objects'[j] => i = j
          /\ \A f, g \in DOMAIN renderpasses' :
                renderpasses'[f] = renderpasses'[g] => f = g
          /\ \A f \in DOMAIN renderpasses :
                f \in DOMAIN renderpasses' /\ renderpasses'[f] = renderpasses[f]
          /\ \A i \in DOMAIN cache_log' :
                cache_log'[i].found =>
                    /\ cache_log'[i].format \in DOMAIN renderpasses'
                    /\ cache_log'[i].handle = renderpasses'[cache_log'[i].format]
      ]_vars

\* C15: every get_or_create(format) answers with a render pass: the format
\* has an entry in the cache afterwards and the answer is that entry's
\* object; no lookup answers 'absent'.
C15_GetOrCreateCreatesOnMiss ==
    \A i \in DOMAIN cache_log :
        cache_log[i].op = "get_or_create" =>
            /\ cache_log[i].found
            /\ cache_log[i].format \in DOMAIN renderpasses \/ pc \in DropPcs


\* the callback of the current frame was invoked
CallbackRan == \E i \in DOMAIN calls : calls[i].call = "callback"

\* a device call of the current frame by name, with its outcome
Made(name, ok) ==
    \E i \in DOMAIN calls : calls[i].call = name /\ calls[i].ok = ok

\* the calls render() makes itself once the callback has returned
FinishingCalls == {"end_command_buffer", "reset_fences", "queue_submit"}

\* C16: when render() has returned Ok, the value it carries is the value the
\* callback returned, and the end of recording, the fence reset and the
\* queue submission of that frame all succeeded; when a step after the
\* callback failed, render() returned the error and no callback value; and
\* nothing is returned while the frame is still being recorded or submitted.
C16_ValueReturnedOnlyAfterSubmit ==
    /\ (pc = "idle" /\ renders > 0 /\ result = "Ok") =>
          /\ ret = cb_value
          /\ ret \in CallbackValues
          /\ CallbackRan
          /\ \A i \in DOMAIN calls :
                calls[i].call \in FinishingCalls => calls[i].ok
          /\ Made("end_command_buffer", TRUE)
          /\ Made("reset_fences", TRUE)
          /\ Made("queue_submit", TRUE)
          /\ calls[Len(calls)].call = "queue_submit"
    /\ (/\ pc = "idle"
        /\ CallbackRan
        /\ \E i \in DOMAIN calls :
              calls[i].call \in FinishingCalls /\ ~calls[i].ok) =>
          /\ result = "VkError"
          /\ ret = "none"
    /\ pc \in RecordingPcs => ret = "none" /\ result = "running"

C16_Witness ==
    /\ pc = "idle"
    /\ result = "Ok"
    /\ ret = "v2"
    /\ cb_value = "v2"
    /\ renders = 2
    /\ Made("queue_submit", TRUE)

\* a step in which render() returns to its caller
RenderReturns == pc' = "idle" /\ (pc \in RecordingPcs \/ renders' # renders)

\* C17: a render() that returns an error had no queue submission accepted:
\* the step that returns the error adds nothing to the GPU's queue and the
\* frame's calls hold no successful queue_submit.  Every submission that is
\* accepted belongs to a frame that returns Ok and holds only command
\* buffers whose recording was begun in that same frame.
C17_ErrorMeansNotSubmitted ==
    [][/\ (RenderReturns /\ result' # "Ok") =>
              /\ pending' = pending
              /\ ~\E i \in DOMAIN calls' :
                    calls'[i].call = "queue_submit" /\ calls'[i].ok
       /\ Len(pending') > Len(pending) =>
              /\ RenderReturns
              /\ result' = "Ok"
              /\ pending'[Len(pending')].frame = renders
              /\ pending'[Len(pending')].command_buffers
                    \subseteq pending'[Len(pending')].recorded
      ]_vars

C17_Witness ==
    /\ pc = "idle"
    /\ result = "VkError"
    /\ Made("queue_submit", FALSE)
    /\ pending # <<>>
    /\ \A i \in DOMAIN pending : pending[i].frame < renders


\* a step in which render() fails before the render pass is opened: no
\* target is bound, or vkBeginCommandBuffer on the primary fails
RenderFailsEarly ==
    /\ pc = "idle"
    /\ pc' = "idle"
    /\ renders' = renders + 1
    /\ result' \in {"NoTarget", "VkError"}

\* C18: a render() that fails before the render pass is opened leaves the
\* renderer idle: no command buffer is in the recording state, the fence
\* and the staging flag are as they were, and the renderer still has its
\* handles, so that a next render() can be entered.
C18_EarlyFailureLeavesIdle ==
    [][RenderFailsEarly =>
          /\ command_buffer' # "recording"
          /\ staging_command_buffer' # "recording"
          /\ submit_fence' = submit_fence
          /\ recording_staging' = recording_staging
          /\ built'
          /\ command_pool' = "live"
      ]_vars


\* C19: on a device that lacks one of the required extensions, new() returns
\* MissingRequiredExtensions, has issued no device call and created no
\* object; and whenever new() failed (for this or for a failing device
\* call) no renderer was handed out: nothing is bound to it and no frame is
\* rendered with it.
C19_MissingExtensionsCreatesNothing ==
    /\ (pc # "unbuilt" /\ ~(RequiredDeviceExtensions \subseteq enabled_extensions)) =>
          /\ pc = "failed"
          /\ result = "MissingRequiredExtensions"
          /\ calls = <<>>
          /\ command_pool = "null"
          /\ command_buffer = "null"
          /\ staging_command_buffer = "null"
          /\ submit_fence = "null"
          /\ renderpasses = NoRenderpasses
          /\ rp_objects = <<>>
    /\ (pc = "failed") => ~(RequiredDeviceExtensions \subseteq enabled_extensions)
    /\ (pc # "unbuilt" /\ ~built) =>
          /\ pc \in {"failed", "drop"} \cup DropPcs
          /\ result \in {"MissingRequiredExtensions", "Err"}
          /\ target = "none"
          /\ renders = 0
    /\ built => result \notin {"MissingRequiredExtensions", "Err"}

C19_Witness ==
    /\ pc = "failed"
    /\ result = "MissingRequiredExtensions"
    /\ enabled_extensions \cap RequiredDeviceExtensions =
          {"VK_EXT_image_drm_format_modifier"}


\* a step that destroys staging buffers
DestroysStaging == Len(staging_buffers') < Len(staging_buffers)

\* the position in the calls of the last call named `name`, 0 when none
LastCall(cs, name) ==
    LET at == {i \in DOMAIN cs : cs[i].call = name}
    IN  IF at = {} THEN 0 ELSE CHOOSE i \in at : \A j \in at : j <= i

\* C20: staging buffers are destroyed only all at once, only by the
\* teardown after its wait on the completion fence has returned, with no
\* queue submission since that wait, and never while a submitted frame that
\* may read one of them is still in flight.
C20_StagingDestroyedAfterCompletion ==
    [][DestroysStaging =>
          /\ staging_buffers' = <<>>
          /\ pc = "drop_staging"
          /\ LastCall(calls, "wait_for_fences") > 0
          /\ LastCall(calls, "queue_submit") < LastCall(calls, "wait_for_fences")
          /\ \A i \in DOMAIN pending : pending[i].staging \cap StagedIds = {}
      ]_vars


\* C21: in teardown the fence is destroyed only after the wait on it was
\* issued and has returned: every vkDestroyFence in the calls of drop() has
\* a vkWaitForFences before it, a destroyed fence was waited on with
\* success, and up to the wait the fence is not destroyed.
C21_FenceDestroyedAfterWait ==
    /\ \A i \in DOMAIN calls :
          calls[i].call = "destroy_fence" =>
              \E j \in 1..(i - 1) : calls[j].call = "wait_for_fences"
    /\ submit_fence = "destroyed" =>
          /\ Made("wait_for_fences", TRUE)
          /\ pc \in {"drop_staging", "dropped"}
    /\ pc \in {"drop", "drop_wait", "drop_fence"} => submit_fence # "destroyed"

C21_Witness ==
    /\ pc = "dropped"
    /\ submit_fence = "destroyed"
    /\ renders > 0
    /\ Made("destroy_fence", TRUE)


\* the fields of a version in the order of their weight
Fields(v) == <<v.variant, v.major, v.minor, v.patch>>

\* the lexicographic order on (variant, major, minor, patch)
Lexicographic(a, b) ==
    IF Fields(a) = Fields(b) THEN "Equal"
    ELSE LET i == CHOOSE k \in 1..4 :
                    /\ Fields(a)[k] # Fields(b)[k]
                    /\ \A j \in 1..(k - 1) : Fields(a)[j] = Fields(b)[j]
         IN  IF Fields(a)[i] < Fields(b)[i] THEN "Less" ELSE "Greater"

\* C22: the comparison of two versions is the lexicographic order on
\* (variant, major, minor, patch): it always gives Less, Equal or Greater,
\* gives Equal exactly when the versions are equal, gives the opposite
\* answer when the operands are swapped, and 1.0 < 1.1 < 1.2.
C22_VersionOrderLexicographic ==
    version_cmp.ord # "none" =>
        /\ version_cmp.ord \in {"Less", "Equal", "Greater"}
        /\ version_cmp.ord = Lexicographic(version_cmp.a, version_cmp.b)
        /\ (version_cmp.ord = "Equal") <=> (version_cmp.a = version_cmp.b)
        /\ (version_cmp.ord = "Less") <=>
              (partial_cmp(version_cmp.b, version_cmp.a) = "Greater")
        /\ partial_cmp(VERSION_1_0, VERSION_1_1) = "Less"
        /\ partial_cmp(VERSION_1_1, VERSION_1_2) = "Less"
        /\ partial_cmp(VERSION_1_0, VERSION_1_2) = "Less"

C22_Witness ==
    /\ version_cmp.a = VERSION_1_1
    /\ version_cmp.b = VERSION_1_2
    /\ version_cmp.ord = "Less"


\* the requested names the runtime does not support, in request order
RECURSIVE Unsupported(_, _)
Unsupported(requested, supported) ==
    IF requested = <<>> THEN <<>>
    ELSE (IF Head(requested) \in supported THEN <<>> ELSE <<Head(requested)>>)
         \o Unsupported(Tail(requested), supported)

\* build() has returned, and had the runtime's lists when it checked
BuildChecked == builder.outcome # "none" /\ builder.enumerated

\* every requested layer and every requested extension is supported
AllSupported ==
    /\ \A i \in DOMAIN builder.enable_layers :
          builder.enable_layers[i] \in builder.supported_layers
    /\ \A i \in DOMAIN builder.enable_extensions :
          builder.enable_extensions[i] \in builder.supported_extensions

\* C23: build() fails and creates no instance whenever a requested layer or
\* a requested extension is not supported by the runtime; an instance is
\* created only when every requested layer and extension is supported, and
\* only a build() that created one returns it.
C23_BuildRequiresSupport ==
    /\ (BuildChecked /\ ~AllSupported) =>
          /\ ~builder.instance
          /\ builder.outcome \in {"MissingLayers", "MissingExtensions"}
    /\ builder.instance => builder.enumerated /\ AllSupported
    /\ builder.instance <=> builder.outcome = "Instance"
    /\ ~builder.enumerated => ~builder.instance

C23_Witness ==
    /\ BuildChecked
    /\ builder.outcome = "MissingExtensions"
    /\ ~builder.instance
    /\ Len(builder.enable_layers) = 2
    /\ Len(builder.enable_extensions) = 2
    /\ builder.enable_extensions[1] \in builder.supported_extensions

\* C29: build() looks at the layers before the extensions.  With a requested
\* layer unsupported it returns MissingLayers with exactly the unsupported
\* requested layers in request order, whatever the extensions are; with the
\* layers supported and a requested extension unsupported it returns
\* MissingExtensions with exactly the unsupported requested extensions in
\* request order.
C29_LayersCheckedBeforeExtensions ==
    BuildChecked =>
        LET ml == Unsupported(builder.enable_layers, builder.supported_layers)
            me == Unsupported(builder.enable_extensions,
                              builder.supported_extensions)
        IN  /\ ml # <<>> =>
                  /\ builder.outcome = "MissingLayers"
                  /\ builder.missing = ml
            /\ (ml = <<>> /\ me # <<>>) =>
                  /\ builder.outcome = "MissingExtensions"
                  /\ builder.missing = me
            /\ (ml = <<>> /\ me = <<>>) =>
                  /\ builder.outcome \in {"Instance", "VkError"}
                  /\ builder.missing = <<>>

C29_Witness ==
    /\ BuildChecked
    /\ builder.outcome = "MissingLayers"
    /\ builder.missing = <<"L2", "L1">>
    /\ builder.enable_extensions = <<"E2", "E1">>
    /\ builder.supported_extensions = {"E1"}


\* C24: the recording_staging flag is true exactly when the staging command
\* buffer is in the recording state, and it is false whenever the renderer
\* is idle between frames.
C24_FlagMatchesStagingState ==
    /\ recording_staging <=> staging_command_buffer = "recording"
    /\ pc = "idle" => ~recording_staging

\* C25: in a render() whose callback has not requested the staging command
\* buffer, no begin and no end is issued on the staging command buffer and
\* the staging flag is false, through the frame and at its return.
C25_NoStagingRequestNoStagingCall ==
    (pc \in RecordingPcs \cup {"idle"} /\ renders > 0 /\ stagingReqs = 0) =>
        /\ StagingBegins = {}
        /\ StagingEnds = {}
        /\ ~recording_staging

C25_Witness ==
    /\ FrameSucceeded
    /\ CallbackRan
    /\ stagingReqs = 0
    /\ Made("end_command_buffer", TRUE)
    /\ StagingEnds = {}


\* C26: render() begins the recording of the primary command buffer, and
\* resets the completion fence, only when no earlier submission (each of
\* which uses that command buffer and signals that fence) is still in
\* flight on the GPU.
C26_NoReuseWhileInFlight ==
    [][/\ (pc = "idle" /\ pc' = "callback") => pending = <<>>
       /\ (pc = "reset" /\ pc' = "submit") => pending = <<>>
      ]_vars


\* C27: the drop of a renderer, the partly built one of a failed new()
\* included, hands a null pool to no vkFreeCommandBuffers and a null fence
\* to no vkWaitForFences, never faults on a null handle, and when it has
\* run to its end every object that was created is destroyed or freed.
C27_PartialDropUsesNoNullHandle ==
    [][/\ (pc \in {"idle", "drop"} /\ pc' \in DropPcs) => command_pool # "null"
       /\ (pc = "drop_wait" /\ pc' # "drop_wait") => submit_fence # "null"
       /\ pc' # "crashed"
       /\ pc' = "dropped" =>
              /\ command_pool' \in {"null", "destroyed"}
              /\ command_buffer' \in {"null", "freed"}
              /\ staging_command_buffer' \in {"null", "freed"}
              /\ submit_fence' \in {"null", "destroyed"}
              /\ renderpasses' = NoRenderpasses
      ]_vars


\* how many calls named `name` a sequence of calls holds
CountCalls(cs, name) == Cardinality({i \in DOMAIN cs : cs[i].call = name})

\* C28: the teardown of a constructed renderer releases everything it owns.
\* The step that destroys the fence leaves no target bound and destroys
\* each cached render pass exactly once, leaving the cache empty; the last
\* step destroys every staging buffer and frees its memory, leaving the
\* list empty; and then both command buffers are freed and the pool and the
\* fence are destroyed.
C28_TeardownReleasesEverything ==
    [][built =>
          /\ (pc = "drop_fence" /\ pc' = "drop_staging") =>
                /\ submit_fence' = "destroyed"
                /\ target' = "none"
                /\ renderpasses' = NoRenderpasses
                /\ \A f \in DOMAIN renderpasses :
                      Cardinality({i \in DOMAIN calls' :
                          IsCall(calls'[i], "destroy_render_pass", f)}) = 1
                /\ CountCalls(calls', "destroy_render_pass")
                      = Cardinality(DOMAIN renderpasses)
          /\ (pc = "drop_staging" /\ pc' = "dropped") =>
                /\ staging_buffers' = <<>>
                /\ CountCalls(calls', "destroy_buffer") = Len(staging_buffers)
                /\ CountCalls(calls', "free_memory") = Len(staging_buffers)
                /\ command_buffer' = "freed"
                /\ staging_command_buffer' = "freed"
                /\ command_pool' = "destroyed"
                /\ submit_fence' = "destroyed"
                /\ target' = "none"
                /\ renderpasses' = NoRenderpasses
      ]_vars

C28_Witness ==
    /\ built
    /\ pc = "dropped"
    /\ staging_buffers = <<>>
    /\ CountCalls(calls, "destroy_buffer") = 2
    /\ CountCalls(calls, "free_memory") = 2
    /\ CountCalls(calls, "destroy_render_pass") = 1
    /\ staging_command_buffer = "freed"


\* the event handled in this step by the wm client
Handled == wm'.events[Len(wm'.events)]

\* C30: handling a MaxSize event changes only the pending maximum size
\* (unspecified for width = height = 0, else (width, height)) and leaves
\* the pending min_size as it was; handling a MinSize event changes only the
\* pending min_size in the same way.
C30_SizeEventsChangeTheirOwnField ==
    [][Len(wm'.events) = Len(wm.events) + 1 =>
          /\ Handled.event = "MaxSize" =>
                /\ wm'.max_size = SizeOf(Handled.a, Handled.b)
                /\ wm'.min_size = wm.min_size
                /\ wm'.geometry = wm.geometry
                /\ wm'.pongs = wm.pongs
          /\ Handled.event = "MinSize" =>
                /\ wm'.min_size = SizeOf(Handled.a, Handled.b)
                /\ wm'.max_size = wm.max_size
                /\ wm'.geometry = wm.geometry
                /\ wm'.pongs = wm.pongs
      ]_vars


\* the serials of the Ping events among the events handled, in order
RECURSIVE PingSerials(_)
PingSerials(events) ==
    IF events = <<>> THEN <<>>
    ELSE (IF Head(events).event = "Ping" THEN <<Head(events).a>> ELSE <<>>)
         \o PingSerials(Tail(events))

\* C31: every Ping event is answered, in the step that handles it, by
\* exactly one pong carrying the ping's serial, and that step changes
\* nothing else of the client; no other event sends a pong.
C31_PingAnsweredByOnePong ==
    [][Len(wm'.events) = Len(wm.events) + 1 =>
          /\ Handled.event = "Ping" =>
                /\ wm'.pongs = Append(wm.pongs, Handled.a)
                /\ wm'.min_size = wm.min_size
                /\ wm'.max_size = wm.max_size
                /\ wm'.geometry = wm.geometry
          /\ Handled.event # "Ping" => wm'.pongs = wm.pongs
          /\ wm'.pongs = PingSerials(wm'.events)
      ]_vars

C31_Witness ==
    /\ wm.pongs = <<2, 1>>
    /\ Len(wm.events) = 3
    /\ wm.events[2].event = "MinSize"
    /\ wm.min_size # None

====
